---- MODULE Spec2Model ----
(***************************************************************************)
(* Model of the Choreo source-config validator: the entry point            *)
(* (src/index.js) and the yup schemas with their custom rules              *)
(* (src/unnamed/part_000, required by index.js as "./schemas").            *)
(*                                                                         *)
(* Strings are TLA+ strings; a character is a string of length one.        *)
(* A parsed YAML value is a record tagged by k: "undef", "null", "str",    *)
(* "num", "arr" or "obj".                                                  *)
(***************************************************************************)
EXTENDS Integers, Sequences, FiniteSets, TLC

VARIABLES
  repoFile,          \* what yaml.load returns for .choreo/<file-type> on disk
  inputFileType,     \* the action input "file-type"
  fsProbe,           \* how fs.existsSync answers for the schema file
  yupMajor,          \* the major version of the yup package installed: in
                     \* 1, required() is decided before the other tests of
                     \* a field and stops them; in 0 it is one test of them
  pc,                \* where main() and its callees are suspended
  srcConfigYamlFile, \* global assigned by main
  sourceRootDir,     \* global assigned by readInput
  fileType,          \* global assigned by readInput
  schemaUsed,        \* which schema's validate() was called, "none" if none
  settled,           \* the settled promise of the awaited schema validation
  thrown,            \* the Error validateSourceConfigFile throws, if any
  warned,            \* core.warning was called with olderSrcConfigMessage
  logged,            \* what main printed with console.log
  failed,            \* core.setFailed was called
  ruleGlobals,       \* globals the custom rules assign: epName, envName,
                     \* schemaFilePath, erroredEndpoint
  calls              \* the calls of main that share the process, when
                     \* several are in flight: inputs and locals of each

vars == <<repoFile, inputFileType, fsProbe, yupMajor, pc,
          srcConfigYamlFile, sourceRootDir, fileType, schemaUsed, settled,
          thrown, warned, logged, failed, ruleGlobals, calls>>

(***************************************************************************)
(* Characters and a regular-expression matcher.                            *)
(***************************************************************************)
Lower == {"a","b","c","d","e","f","g","h","i","j","k","l","m",
          "n","o","p","q","r","s","t","u","v","w","x","y","z"}
Upper == {"A","B","C","D","E","F","G","H","I","J","K","L","M",
          "N","O","P","Q","R","S","T","U","V","W","X","Y","Z"}
Digit == {"0","1","2","3","4","5","6","7","8","9"}
Space == {" ", "\t", "\n", "\r", "\f"}
LineEnd == {"\n", "\r"}

Ch(s, i) == SubSeq(s, i, i)

\* s.startsWith(p)
StartsWith(s, p) == Len(s) >= Len(p) /\ SubSeq(s, 1, Len(p)) = p

\* s.includes(p)
Includes(s, p) ==
  \E i \in 1..(Len(s) - Len(p) + 1) : SubSeq(s, i, i + Len(p) - 1) = p

\* Regular expressions as trees.
Set(cs)      == [t |-> "set", cs |-> cs]
NotSet(cs)   == [t |-> "nset", cs |-> cs]
Lit(str)     == [t |-> "lit", s |-> str]
Cat(rs)      == [t |-> "cat", rs |-> rs]
Alt(rs)      == [t |-> "alt", rs |-> rs]
Opt(r)       == [t |-> "rep", r |-> r, lo |-> 0, hi |-> 1]
Star(r)      == [t |-> "rep", r |-> r, lo |-> 0, hi |-> -1]
Plus(r)      == [t |-> "rep", r |-> r, lo |-> 1, hi |-> -1]
Rep(r, a, b) == [t |-> "rep", r |-> r, lo |-> a, hi |-> b]
NotAhead(r)  == [t |-> "nla", r |-> r]

RECURSIVE Ends(_, _, _), CatEnds(_, _, _, _), RepEnds(_, _, _, _, _)
\* The positions at which a match of re that starts at position i of s ends
\* (the position after its last character).
Ends(re, s, i) ==
  CASE re.t = "set"  -> IF i <= Len(s) /\ Ch(s, i) \in re.cs THEN {i + 1} ELSE {}
    [] re.t = "nset" -> IF i <= Len(s) /\ Ch(s, i) \notin re.cs THEN {i + 1} ELSE {}
    [] re.t = "lit"  -> IF i + Len(re.s) - 1 <= Len(s)
                           /\ SubSeq(s, i, i + Len(re.s) - 1) = re.s
                        THEN {i + Len(re.s)} ELSE {}
    [] re.t = "cat"  -> CatEnds(re.rs, 1, s, {i})
    [] re.t = "alt"  -> UNION {Ends(re.rs[n], s, i) : n \in 1..Len(re.rs)}
    [] re.t = "rep"  -> RepEnds(re, s, {i}, {i}, 0)
    [] re.t = "nla"  -> IF Ends(re.r, s, i) = {} THEN {i} ELSE {}

CatEnds(rs, n, s, from) ==
  IF n > Len(rs) \/ from = {} THEN from
  ELSE CatEnds(rs, n + 1, s, UNION {Ends(rs[n], s, p) : p \in from})

\* frontier: ends after exactly count repetitions; acc: ends accepted so far.
RepEnds(re, s, frontier, acc, count) ==
  LET ok   == IF count >= re.lo THEN frontier ELSE {}
      acc2 == IF count = 0 THEN ok ELSE acc \cup ok
      nxt  == UNION {Ends(re.r, s, p) : p \in frontier}
      stop == \/ frontier = {}
              \/ (re.hi >= 0 /\ count >= re.hi)
              \/ (count >= re.lo /\ nxt \subseteq acc2 /\ re.hi < 0)
  IN IF stop THEN acc2 ELSE RepEnds(re, s, nxt, acc2, count + 1)

\* regex.test(s) for a pattern written ^...$
Test(re, s) == (Len(s) + 1) \in Ends(re, s, 1)

(***************************************************************************)
(* The patterns of the schemas module.                                     *)
(***************************************************************************)
AlnumChars == Lower \cup Upper \cup Digit
\* "[a-zA-Z0-9_-]+"
alphanumericRegex == Plus(Set(AlnumChars \cup {"_", "-"}))
\* \d+
Digits == Plus(Set(Digit))
\* (PUBLIC|PROJECT|ORGANIZATION)
VisibilityAlt == Alt(<<Lit("PUBLIC"), Lit("PROJECT"), Lit("ORGANIZATION")>>)

choreoSvcRefNameRegex ==
  Cat(<<Lit("choreo:///"), alphanumericRegex, Lit("/"), alphanumericRegex,
        Lit("/"), alphanumericRegex, Lit("/"), alphanumericRegex,
        Lit("/v"), Digits, Opt(Cat(<<Lit("."), Digits>>)),
        Lit("/"), VisibilityAlt>>)

thirdPartySvcRefNameRegex ==
  Cat(<<Lit("thirdparty:"),
        Plus(Set(AlnumChars \cup Space \cup {"_", ".", "-"})),
        Lit("/"), Set({"v", "V"}), Digits, Star(Cat(<<Lit("."), Digits>>))>>)

dbSvcRefNameRegex ==
  Cat(<<Lit("database:"), Opt(Cat(<<alphanumericRegex, Lit("/")>>)),
        alphanumericRegex>>)

\* svcRefNameRegex with a version that takes the lowercase v only
svcRefNameRegexLowerV ==
  Cat(<<Opt(Lit("service:")),
        Opt(Cat(<<Lit("/"), alphanumericRegex, Lit("/")>>)),
        alphanumericRegex, Lit("/"),
        Opt(Lit("v")), Digits, Star(Cat(<<Lit("."), Digits>>)),
        Opt(Cat(<<Lit("/"), alphanumericRegex>>)),
        Opt(Cat(<<Lit("/"), VisibilityAlt>>))>>)

svcRefNameRegex ==
  Cat(<<Opt(Lit("service:")),
        Opt(Cat(<<Lit("/"), alphanumericRegex, Lit("/")>>)),
        alphanumericRegex, Lit("/"),
        Opt(Set({"v", "V"})), Digits, Star(Cat(<<Lit("."), Digits>>)),
        Opt(Cat(<<Lit("/"), alphanumericRegex>>)),
        Opt(Cat(<<Lit("/"), VisibilityAlt>>))>>)

\* /^\/[a-zA-Z0-9\/\-_]*$/
basePathRegex ==
  Cat(<<Lit("/"), Star(Set(AlnumChars \cup {"/", "-", "_"}))>>)

\* /^[a-z][a-z0-9_-]*$/
endpointNameRegex ==
  Cat(<<Set(Lower), Star(Set(Lower \cup Digit \cup {"_", "-"}))>>)

\* /^[a-zA-Z_][a-zA-Z0-9_]*$/
envNameRegex ==
  Cat(<<Set(Lower \cup Upper \cup {"_"}), Star(Set(AlnumChars \cup {"_"}))>>)

\* /^[\s]*(?!.*[^a-zA-Z0-9][^a-zA-Z0-9])[a-zA-Z0-9][a-zA-Z0-9 _\-.]{1,48}[a-zA-Z0-9][\s]*$/
connectionNameRegex ==
  Cat(<<Star(Set(Space)),
        NotAhead(Cat(<<Star(NotSet(LineEnd)), NotSet(AlnumChars),
                       NotSet(AlnumChars)>>)),
        Set(AlnumChars),
        Rep(Set(AlnumChars \cup {" ", "_", "-", "."}), 1, 48),
        Set(AlnumChars), Star(Set(Space))>>)

(***************************************************************************)
(* Parsed YAML values.                                                     *)
(***************************************************************************)
Undef    == [k |-> "undef"]
Null     == [k |-> "null"]
Str(x)   == [k |-> "str", v |-> x]
\* the number n + f/10
Num(n, f) == [k |-> "num", v |-> n, f |-> f]
Arr(xs)  == [k |-> "arr", v |-> xs]
Obj(r)   == [k |-> "obj", v |-> r]

IsAbsent(v) == v.k \in {"undef", "null"}

\* JavaScript truthiness (!value is its negation)
Truthy(v) ==
  CASE v.k \in {"undef", "null"} -> FALSE
    [] v.k = "str" -> v.v # ""
    [] v.k = "num" -> v.v # 0 \/ v.f # 0
    [] OTHER -> TRUE

\* ${value} in a template literal
Text(v) ==
  CASE v.k = "undef" -> "undefined"
    [] v.k = "null" -> "null"
    [] v.k = "str" -> v.v
    [] v.k = "num" -> IF v.f = 0 THEN ToString(v.v)
                      ELSE ToString(v.v) \o "." \o ToString(v.f)
    [] OTHER -> "[object Object]"

\* a > n and a < n for an integer n
NumMoreThan(a, n) == a.v > n \/ (a.v = n /\ a.f > 0)
NumLessThan(a, n) == a.v < n

(***************************************************************************)
(* Outcomes of the tests of a schema: a sequence of items, each a          *)
(* violation (a ValidationError with its message) or a panic (a test       *)
(* threw something that is not a ValidationError, which makes validate()   *)
(* reject with that error instead of the aggregated ValidationError).      *)
(***************************************************************************)
\* rule: the name of the test; at: the path the test ran at (testCtx.path)
Pass == <<>>
Violation(rule, at, m) ==
  <<[panic |-> FALSE, rule |-> rule, at |-> at, message |-> m]>>
Throws(rule, at, m) ==
  <<[panic |-> TRUE, rule |-> rule, at |-> at, message |-> m]>>

RECURSIVE Flatten(_)
Flatten(seqs) ==
  IF seqs = <<>> THEN <<>> ELSE Head(seqs) \o Flatten(Tail(seqs))

\* the paths yup gives to the element i (0-based) and to the field f
ElemPath(path, i) == path \o "[" \o ToString(i) \o "]"
FieldPath(path, f) == IF path = "" THEN f ELSE path \o "." \o f

\* path.split(".")[0]
RECURSIVE FirstSegment(_, _)
FirstSegment(path, i) ==
  IF i > Len(path) THEN path
  ELSE IF Ch(path, i) = "." THEN SubSeq(path, 1, i - 1)
  ELSE FirstSegment(path, i + 1)

(***************************************************************************)
(* Constants of the schemas module.                                        *)
(***************************************************************************)
ALLOWED_TYPES == <<"REST", "GraphQL", "GRPC", "TCP", "UDP", "WS">>
ALLOWED_NETWORK_VISIBILITIES == <<"Public", "Project", "Organization">>
BASE_PATH_REQUIRED_TYPES == <<"REST", "GraphQL", "WS">>
COMPONENT_CONFIG_YAML_API_VERSION == <<"core.choreo.dev/v1beta1">>
COMPONENT_CONFIG_YAML_KIND == <<"ComponentConfig">>
PROJECT_ONLY_TYPES == <<"GRPC", "TCP", "UDP">>
PROJECT_VISIBILITY == "Project"

\* list.includes(v) for a list of strings
ListIncludes(list, v) ==
  v.k = "str" /\ \E i \in 1..Len(list) : list[i] = v.v

RECURSIVE Join(_, _)
\* list.join(sep)
Join(list, sep) ==
  IF list = <<>> THEN ""
  ELSE IF Len(list) = 1 THEN list[1]
  ELSE list[1] \o sep \o Join(Tail(list), sep)

(***************************************************************************)
(* The custom rules added to yup.                                          *)
(***************************************************************************)
RECURSIVE EveryNameUnique(_, _, _)
\* arr.every((x) => { n = x.name; if (set.has(n)) return false; set.add(n);
\* return true; }): "unique", "duplicate", or "throws" when x is null.
EveryNameUnique(arr, i, seen) ==
  IF i > Len(arr) THEN "unique"
  ELSE IF IsAbsent(arr[i]) THEN "throws"
  ELSE IF arr[i].v.name \in seen THEN "duplicate"
  ELSE EveryNameUnique(arr, i + 1, seen \cup {arr[i].v.name})

checkEndpointNameUniqueness(path, arr) ==
  IF ~Truthy(arr) THEN Pass
  ELSE LET r == EveryNameUnique(arr.v, 1, {}) IN
    CASE r = "unique" -> Pass
      [] r = "duplicate" ->
           Violation("unique-endpoint-name", path, "Endpoint names must be unique")
      [] r = "throws" ->
           Throws("unique-endpoint-name", path,
                  "Cannot read properties of null (reading 'name')")

checkEnvVariableUniqueness(path, arr) ==
  IF ~Truthy(arr) THEN Pass
  ELSE LET r == EveryNameUnique(arr.v, 1, {}) IN
    CASE r = "unique" -> Pass
      [] r = "duplicate" ->
           Violation("unique-env-variable-name", path,
                     "Environment variable names must be unique")
      [] r = "throws" ->
           Throws("unique-env-variable-name", path,
                  "Cannot read properties of null (reading 'name')")

\* contextRequired with a message that names the field without its path
contextRequiredBare(path, value, type) ==
  IF ListIncludes(BASE_PATH_REQUIRED_TYPES, type) /\ ~Truthy(value)
  THEN Violation("context-required", path,
                 "context is required for " \o Text(type) \o "-type endpoints")
  ELSE Pass

\* value: the context; type: testCtx.parent.type
contextRequired(path, value, type) ==
  IF ListIncludes(BASE_PATH_REQUIRED_TYPES, type) /\ ~Truthy(value)
  THEN Violation("context-required", path,
                 path \o " is required for " \o Text(type) \o "-type endpoints")
  ELSE Pass

\* path.join(srcDir, value)
PathJoin(dir, file) == dir \o "/" \o file

\* fs: what fs.existsSync does for each path: "exists", "missing", or
\* "throws". In the catch branch the ValidationError is constructed and
\* dropped, the test returns undefined, and yup reports its default message.
schemaFileExists(path, value, srcDir, fs) ==
  IF ~Truthy(value) THEN Pass
  ELSE LET schemaFilePath == PathJoin(srcDir, Text(value))
           probe == fs[schemaFilePath]
       IN CASE probe = "exists" -> Pass
            [] probe = "missing" ->
                 Violation("schema-file-exists", path,
                   "Schema file does not exist at the given path " \o Text(value) \o ".")
            [] probe = "throws" ->
                 Violation("schema-file-exists", path, path \o " is invalid")

InvalidIdentifier(path) == path \o " has an invalid service identifier. "

validateServiceName(path, value) ==
  IF IsAbsent(value)
  THEN Throws("validate-service-name", path,
              "Cannot read properties of " \o Text(value)
                \o " (reading 'startsWith')")
  ELSE IF StartsWith(value.v, "choreo:///")
  THEN IF Test(choreoSvcRefNameRegex, value.v) THEN Pass
       ELSE Violation("validate-service-name", path, InvalidIdentifier(path)
              \o "Use the format choreo:///<org-handle>/<project-handle>/<component-handle>/<endpoint-identifier>/<major-version>/<network-visibility>")
  ELSE IF StartsWith(value.v, "thirdparty:")
  THEN IF Test(thirdPartySvcRefNameRegex, value.v) THEN Pass
       ELSE Violation("validate-service-name", path, InvalidIdentifier(path)
              \o "Use the format thirdparty:<service_name>/<version>, "
              \o "allowing only alphanumeric characters, periods (.), underscores (_), hyphens (-), and slashes (/) after thirdparty:.")
  ELSE IF StartsWith(value.v, "database:")
  THEN IF Test(dbSvcRefNameRegex, value.v) THEN Pass
       ELSE Violation("validate-service-name", path, InvalidIdentifier(path)
              \o "Use the format database:[<serverName>/]<databaseName> where optional fields are in brackets, "
              \o "allowing only alphanumeric characters, underscores (_), hyphens (-), and slashes (/) after database:.")
  ELSE Violation("validate-service-name", path,
         path \o " has an invalid service identifier. It can only contain choreo, thirdparty, or database types.")

validateResourceRef(path, value) ==
  IF IsAbsent(value)
  THEN Throws("validate-resource-ref", path,
              "Cannot read properties of " \o Text(value)
                \o " (reading 'startsWith')")
  ELSE IF StartsWith(value.v, "service:")
  THEN IF Test(svcRefNameRegex, value.v) THEN Pass
       ELSE Violation("validate-resource-ref", path, InvalidIdentifier(path)
              \o "Use the format [service:][/<project-handle>/]<component-handle>/<major-version>[/<endpoint-handle>][/<network-visibility>] where optional fields are specified in brackets.")
  ELSE IF StartsWith(value.v, "thirdparty:")
  THEN IF Test(thirdPartySvcRefNameRegex, value.v) THEN Pass
       ELSE Violation("validate-resource-ref", path, InvalidIdentifier(path)
              \o "Use the format thirdparty:<service_name>/<version>, "
              \o "allowing only alphanumeric characters, periods (.), underscores (_), hyphens (-), and slashes (/) after thirdparty:.")
  ELSE IF StartsWith(value.v, "database:")
  THEN IF Test(dbSvcRefNameRegex, value.v) THEN Pass
       ELSE Violation("validate-resource-ref", path, InvalidIdentifier(path)
              \o "Use the format database:[<serverName>/]<databaseName> where optional fields are in brackets, "
              \o "allowing only alphanumeric characters, underscores (_), hyphens (-), and slashes (/) after database:.")
  ELSE IF Test(svcRefNameRegex, value.v) THEN Pass
       ELSE Violation("validate-resource-ref", path, InvalidIdentifier(path)
              \o "For services, use [service:][/<project-handle>/]<component-handle>/<major-version>[/<endpoint-handle>][/<network-visibility>]. "
              \o "For databases, use database:[<serverName>/]<databaseName>. "
              \o "For third-party services, use thirdparty:<service_name>/<version>. "
              \o "Optional fields are specified in brackets.")

\* visibility: the networkVisibilities array; type: testCtx.parent.type
projectVisibilityOnly(path, visibility, type) ==
  LET isVisibilityProjectOnly ==
        /\ visibility.k = "arr"
        /\ Len(visibility.v) = 1
        /\ visibility.v[1] = Str(PROJECT_VISIBILITY)
      isTypeProjectOnly == ListIncludes(PROJECT_ONLY_TYPES, type)
      erroredEndpoint ==
        IF FirstSegment(path, 1) = "" THEN "endpoint" ELSE FirstSegment(path, 1)
  IN IF isTypeProjectOnly /\ ~isVisibilityProjectOnly
     THEN Violation("project-visibility-only", path,
            "The " \o erroredEndpoint \o " is a type " \o Text(type)
              \o " endpoint and can only have networkVisibility set to "
              \o PROJECT_VISIBILITY)
     ELSE Pass

(***************************************************************************)
(* The rules of yup the schemas use, with yup's default messages.          *)
(***************************************************************************)
RequiredMessage(path) == path \o " is a required field"

\* A field's tests. required: the field is .required(); tests: the outcome
\* of its other tests (each passes an absent value unless it is a custom
\* test). An absent required value fails "required"; whether the other
\* tests still run depends on the library version. An empty string fails
\* the "required" test of a string beside the others.
Field(path, v, required, tests) ==
  IF IsAbsent(v)
  THEN IF required
       THEN IF yupMajor = 1
            THEN Violation("required", path, RequiredMessage(path))
            ELSE Violation("required", path, RequiredMessage(path)) \o tests
       ELSE IF v.k = "null"
            THEN Violation("nullable", path, path \o " cannot be null")
            ELSE tests
  ELSE IF required /\ v = Str("")
       THEN Violation("required", path, RequiredMessage(path)) \o tests
       ELSE tests

oneOf(path, v, list, message) ==
  IF IsAbsent(v) \/ ListIncludes(list, v) THEN Pass
  ELSE Violation("oneOf", path, message)

OneOfMessage(path, list) ==
  path \o " must be one of the following values: " \o Join(list, ", ")

matches(path, v, regex, message) ==
  IF IsAbsent(v) \/ Test(regex, v.v) THEN Pass
  ELSE Violation("matches", path, message)

max(path, v, n) ==
  IF IsAbsent(v) \/ Len(v.v) <= n THEN Pass
  ELSE Violation("max", path,
         path \o " must be at most " \o ToString(n) \o " characters")

moreThan(path, v, n) ==
  IF IsAbsent(v) \/ NumMoreThan(v, n) THEN Pass
  ELSE Violation("moreThan", path,
         path \o " must be greater than " \o ToString(n))

lessThan(path, v, n) ==
  IF IsAbsent(v) \/ NumLessThan(v, n) THEN Pass
  ELSE Violation("lessThan", path,
         path \o " must be less than " \o ToString(n))

HexChars == Digit \cup {"a","b","c","d","e","f","A","B","C","D","E","F"}
\* yup's pattern for string().uuid()
uuidRegex ==
  Alt(<<Cat(<<Rep(Set(HexChars), 8, 8), Lit("-"), Rep(Set(HexChars), 4, 4),
              Lit("-"), Set({"1","2","3","4","5"}), Rep(Set(HexChars), 3, 3),
              Lit("-"), Set({"8","9","a","b","A","B"}), Rep(Set(HexChars), 3, 3),
              Lit("-"), Rep(Set(HexChars), 12, 12)>>),
        Lit("00000000-0000-0000-0000-000000000000")>>)

uuid(path, v) ==
  IF IsAbsent(v) \/ v.v = "" \/ Test(uuidRegex, v.v) THEN Pass
  ELSE Violation("uuid", path, path \o " must be a valid UUID")

\* array().of(E): the tests of every element, in order
ArrayOf(path, arr, E(_, _)) ==
  IF arr.k # "arr" THEN Pass
  ELSE Flatten([i \in 1..Len(arr.v) |-> E(ElemPath(path, i - 1), arr.v[i])])

\* array().required(): yup 0 also rejects the empty array
ArrayRequired(path, arr) ==
  IF IsAbsent(arr) \/ (yupMajor = 0 /\ arr.k = "arr" /\ arr.v = <<>>)
  THEN Violation("required", path, RequiredMessage(path))
  ELSE Pass

\* object(): a null where an object is expected
NullObject(path) ==
  IF yupMajor = 1
  THEN Violation("nullable", path,
         (IF path = "" THEN "this" ELSE path) \o " cannot be null")
  ELSE Violation("typeError", path,
         (IF path = "" THEN "this" ELSE path)
           \o " must be a object type, but the final value was: null.")

min(path, arr, n) ==
  IF arr.k # "arr" \/ Len(arr.v) >= n THEN Pass
  ELSE Violation("min", path,
         path \o " field must have at least " \o ToString(n) \o " items")

\* number().required().moreThan(1000).lessThan(65535)
PortRules(path, port) ==
  Field(path, port, TRUE, moreThan(path, port, 1000) \o lessThan(path, port, 65535))

\* string().required().oneOf(ALLOWED_TYPES)
TypeRules(path, type) ==
  Field(path, type, TRUE,
        oneOf(path, type, ALLOWED_TYPES, OneOfMessage(path, ALLOWED_TYPES)))

(***************************************************************************)
(* Schema definitions. An object that is undefined is cast to the default  *)
(* object of its shape before its fields are validated.                    *)
(***************************************************************************)
DefaultService == [basePath |-> Undef, port |-> Undef]

serviceSchema(path, service) ==
  IF service.k = "null"
  THEN Violation("required", path, RequiredMessage(path))
  ELSE LET o == IF service.k = "obj" THEN service.v ELSE DefaultService
           bp == FieldPath(path, "basePath")
       IN Field(bp, o.basePath, FALSE,
            matches(bp, o.basePath, basePathRegex,
              bp \o " must start with a forward slash and can only contain alphanumeric characters, hyphens, underscores and forward slashes."))
          \o PortRules(FieldPath(path, "port"), o.port)

\* the element schema of endpointSchemaV0D1
EndpointV0D1(path, ep, srcDir, probe) ==
  IF ep.k = "null" THEN NullObject(path)
  ELSE LET o  == ep.v
           nm == FieldPath(path, "name")
           nv == FieldPath(path, "networkVisibility")
           cx == FieldPath(path, "context")
           sf == FieldPath(path, "schemaFilePath")
       IN Field(nm, o.name, TRUE, Pass)
          \o PortRules(FieldPath(path, "port"), o.port)
          \o TypeRules(FieldPath(path, "type"), o.type)
          \o Field(nv, o.networkVisibility, FALSE,
               oneOf(nv, o.networkVisibility, ALLOWED_NETWORK_VISIBILITIES,
                     OneOfMessage(nv, ALLOWED_NETWORK_VISIBILITIES)))
          \o Field(cx, o.context, FALSE,
               contextRequired(cx, o.context, o.type)
               \o matches(cx, o.context, basePathRegex,
                    cx \o " must start with a forward slash and can only contain alphanumeric characters, hyphens, and forward slashes."))
          \o Field(sf, o.schemaFilePath, FALSE,
               schemaFileExists(sf, o.schemaFilePath, srcDir, probe))

endpointSchemaV0D1(path, endpoints, srcDir, probe) ==
  LET E(p, ep) == EndpointV0D1(p, ep, srcDir, probe)
  IN ArrayOf(path, endpoints, E)

\* the element schema of networkVisibilities
VisibilityElement(path, v) ==
  Field(path, v, FALSE,
        oneOf(path, v, ALLOWED_NETWORK_VISIBILITIES,
              OneOfMessage(path, ALLOWED_NETWORK_VISIBILITIES)))

\* the element schema of endpointSchemaV0D2
EndpointV0D2(path, ep, srcDir, probe) ==
  IF ep.k = "null" THEN NullObject(path)
  ELSE LET o  == ep.v
           nm == FieldPath(path, "name")
           dn == FieldPath(path, "displayName")
           vs == FieldPath(path, "networkVisibilities")
           sf == FieldPath(path, "schemaFilePath")
       IN Field(nm, o.name, TRUE,
            max(nm, o.name, 50)
            \o matches(nm, o.name, endpointNameRegex,
                 nm \o " must start with a lowercase letter and can only contain lowercase letters, numbers, underscores (_), and hyphens (-)."))
          \o Field(dn, o.displayName, FALSE, max(dn, o.displayName, 50))
          \o serviceSchema(FieldPath(path, "service"), o.service)
          \o TypeRules(FieldPath(path, "type"), o.type)
          \o Field(vs, o.networkVisibilities, FALSE,
               ArrayOf(vs, o.networkVisibilities, VisibilityElement)
               \o projectVisibilityOnly(vs, o.networkVisibilities, o.type))
          \o Field(sf, o.schemaFilePath, FALSE,
               schemaFileExists(sf, o.schemaFilePath, srcDir, probe))

endpointSchemaV0D2(path, endpoints, srcDir, probe) ==
  LET E(p, ep) == EndpointV0D2(p, ep, srcDir, probe)
  IN Field(path, endpoints, FALSE,
       ArrayOf(path, endpoints, E) \o checkEndpointNameUniqueness(path, endpoints))

\* the element schema of serviceReferences[i].env
FromTo(path, e) ==
  IF e.k = "null" THEN NullObject(path)
  ELSE Field(FieldPath(path, "from"), e.v.from, TRUE, Pass)
       \o Field(FieldPath(path, "to"), e.v.to, TRUE, Pass)

\* the element schema of serviceReferencesSchema
ServiceReference(path, ref) ==
  IF ref.k = "null" THEN NullObject(path)
  ELSE LET o  == ref.v
           nm == FieldPath(path, "name")
           cc == FieldPath(path, "connectionConfig")
           ev == FieldPath(path, "env")
       IN Field(nm, o.name, TRUE, validateServiceName(nm, o.name))
          \o Field(cc, o.connectionConfig, TRUE, uuid(cc, o.connectionConfig))
          \o (IF ArrayRequired(ev, o.env) # Pass THEN ArrayRequired(ev, o.env)
              ELSE ArrayOf(ev, o.env, FromTo))

serviceReferencesSchema(path, refs) ==
  Field(path, refs, FALSE, ArrayOf(path, refs, ServiceReference))

\* the element schema of connectionReferencesSchema
ConnectionReference(path, ref) ==
  IF ref.k = "null" THEN NullObject(path)
  ELSE LET o  == ref.v
           nm == FieldPath(path, "name")
           rr == FieldPath(path, "resourceRef")
       IN Field(nm, o.name, TRUE,
            matches(nm, o.name, connectionNameRegex,
              nm \o " can only contain letters, numbers, with non-consecutive delimiters: underscores (_), hyphens (-), dots (.), or spaces."))
          \o Field(rr, o.resourceRef, TRUE, validateResourceRef(rr, o.resourceRef))

connectionReferencesSchema(path, refs) ==
  Field(path, refs, FALSE, ArrayOf(path, refs, ConnectionReference))

DefaultDependencies ==
  [serviceReferences |-> Undef, connectionReferences |-> Undef]

dependencySchemaV0D1(path, dep) ==
  IF dep.k = "null" THEN NullObject(path)
  ELSE LET o == IF dep.k = "obj" THEN dep.v ELSE DefaultDependencies
       IN serviceReferencesSchema(FieldPath(path, "serviceReferences"),
                                  o.serviceReferences)

dependencySchemaV0D2(path, dep) ==
  IF dep.k = "null" THEN NullObject(path)
  ELSE LET o == IF dep.k = "obj" THEN dep.v ELSE DefaultDependencies
       IN serviceReferencesSchema(FieldPath(path, "serviceReferences"),
                                  o.serviceReferences)
          \o connectionReferencesSchema(FieldPath(path, "connectionReferences"),
                                        o.connectionReferences)

\* connectionRefSchema and configGroupRefSchema: {name, key}, nullable
connectionRefSchema(path, ref) ==
  IF ref.k # "obj" THEN Pass
  ELSE Field(FieldPath(path, "name"), ref.v.name, TRUE, Pass)
       \o Field(FieldPath(path, "key"), ref.v.key, TRUE, Pass)

configGroupRefSchema(path, ref) == connectionRefSchema(path, ref)

\* configFormSchema: optional fields only, nullable
configFormSchema(path, form) == Pass

\* undefined becomes the schema's default(null)
DefaultNull(v) == IF v.k = "undef" THEN Null ELSE v

DefaultValueFrom ==
  [connectionRef |-> Undef, configGroupRef |-> Undef, configForm |-> Undef]

\* the valueFrom object of an env entry after the cast
ValueFromOf(env) ==
  IF env.valueFrom.k = "obj" THEN env.valueFrom.v ELSE DefaultValueFrom

EnvNameRules(path, name) ==
  Field(path, name, TRUE,
        matches(path, name, envNameRegex,
          "Environment variable name must start with a letter or underscore and can only contain letters, numbers, and underscores."))

envVariableSchemaV0D1(path, env) ==
  IF env.k = "null" THEN NullObject(path)
  ELSE LET o  == env.v
           vf == ValueFromOf(o)
           vp == FieldPath(path, "valueFrom")
       IN EnvNameRules(FieldPath(path, "name"), o.name)
          \o (IF o.valueFrom.k = "null" THEN NullObject(vp)
              ELSE connectionRefSchema(FieldPath(vp, "connectionRef"), vf.connectionRef)
                   \o configGroupRefSchema(FieldPath(vp, "configGroupRef"), vf.configGroupRef))
          \o (IF Truthy(o.value) \/ Truthy(DefaultNull(vf.configGroupRef))
                 \/ Truthy(DefaultNull(vf.connectionRef))
              THEN Pass
              ELSE Violation("oneOfRequired", path,
                     "One of value, connectionRef or configGroupRef must be provided"))

envVariableSchemaV0D2(path, env) ==
  IF env.k = "null" THEN NullObject(path)
  ELSE LET o  == env.v
           vf == ValueFromOf(o)
           vp == FieldPath(path, "valueFrom")
       IN EnvNameRules(FieldPath(path, "name"), o.name)
          \o (IF o.valueFrom.k = "null" THEN NullObject(vp)
              ELSE connectionRefSchema(FieldPath(vp, "connectionRef"), vf.connectionRef)
                   \o configGroupRefSchema(FieldPath(vp, "configGroupRef"), vf.configGroupRef)
                   \o configFormSchema(FieldPath(vp, "configForm"), vf.configForm))
          \o (IF Truthy(o.value) \/ Truthy(DefaultNull(vf.configGroupRef))
                 \/ Truthy(DefaultNull(vf.connectionRef))
                 \/ Truthy(DefaultNull(vf.configForm))
              THEN Pass
              ELSE Violation("oneOfRequired", path,
                     "One of value, connectionRef, configGroupRef  or configForm must be provided"))

DefaultConfiguration == [env |-> Undef]

configurationSchemaV0D1(path, conf) ==
  IF conf.k = "null" THEN NullObject(path)
  ELSE LET o == IF conf.k = "obj" THEN conf.v ELSE DefaultConfiguration
           ep == FieldPath(path, "env")
       IN Field(ep, o.env, FALSE,
            ArrayOf(ep, o.env, envVariableSchemaV0D1)
            \o checkEnvVariableUniqueness(ep, o.env))

configurationSchemaV0D2(path, conf) ==
  IF conf.k = "null" THEN NullObject(path)
  ELSE LET o == IF conf.k = "obj" THEN conf.v ELSE DefaultConfiguration
           ep == FieldPath(path, "env")
       IN Field(ep, o.env, FALSE,
            ArrayOf(ep, o.env, envVariableSchemaV0D2)
            \o checkEnvVariableUniqueness(ep, o.env))

DefaultSpec == [inbound |-> Undef, outbound |-> Undef]

DefaultDocument ==
  [schemaVersion |-> Undef, endpoints |-> Undef, dependencies |-> Undef,
   configuration |-> Undef, configurations |-> Undef, version |-> Undef,
   apiVersion |-> Undef, kind |-> Undef, spec |-> Undef]

\* the fields of the root value after the cast
Root(doc) == IF doc.k = "obj" THEN doc.v ELSE DefaultDocument

specSchema(path, spec, srcDir, probe) ==
  IF spec.k = "null" THEN NullObject(path)
  ELSE LET o  == IF spec.k = "obj" THEN spec.v ELSE DefaultSpec
           ib == FieldPath(path, "inbound")
       IN Field(ib, o.inbound, FALSE,
            endpointSchemaV0D1(ib, o.inbound, srcDir, probe)
            \o min(ib, o.inbound, 0))
          \o dependencySchemaV0D1(FieldPath(path, "outbound"), o.outbound)

\* number().required().oneOf([n + f/10], message)
SchemaVersionRules(v, n, f, message) ==
  Field("schemaVersion", v, TRUE,
        IF IsAbsent(v) \/ v = Num(n, f) THEN Pass
        ELSE Violation("oneOf", "schemaVersion", message))

componentYamlSchemaV1D0(doc, srcDir, probe) ==
  IF doc.k = "null" THEN NullObject("")
  ELSE SchemaVersionRules(Root(doc).schemaVersion, 1, 0, "Schema version must be 1.0")
       \o endpointSchemaV0D2("endpoints", Root(doc).endpoints, srcDir, probe)
       \o dependencySchemaV0D1("dependencies", Root(doc).dependencies)

componentYamlSchemaV1D1(doc, srcDir, probe) ==
  IF doc.k = "null" THEN NullObject("")
  ELSE SchemaVersionRules(Root(doc).schemaVersion, 1, 1, "Schema version must be 1.1")
       \o endpointSchemaV0D2("endpoints", Root(doc).endpoints, srcDir, probe)
       \o dependencySchemaV0D2("dependencies", Root(doc).dependencies)
       \o configurationSchemaV0D1("configuration", Root(doc).configuration)
       \o configurationSchemaV0D1("configurations", Root(doc).configurations)

componentYamlSchemaV1D2(doc, srcDir, probe) ==
  IF doc.k = "null" THEN NullObject("")
  ELSE SchemaVersionRules(Root(doc).schemaVersion, 1, 2, "Schema version must be 1.2")
       \o endpointSchemaV0D2("endpoints", Root(doc).endpoints, srcDir, probe)
       \o dependencySchemaV0D2("dependencies", Root(doc).dependencies)
       \o configurationSchemaV0D2("configuration", Root(doc).configuration)
       \o configurationSchemaV0D2("configurations", Root(doc).configurations)

endpointYamlSchemaV0D1(doc, srcDir, probe) ==
  IF doc.k = "null" THEN NullObject("")
  ELSE Field("version", Root(doc).version, TRUE, Pass)
       \o (IF ArrayRequired("endpoints", Root(doc).endpoints) # Pass
           THEN ArrayRequired("endpoints", Root(doc).endpoints)
           ELSE endpointSchemaV0D1("endpoints", Root(doc).endpoints, srcDir, probe)
                \o min("endpoints", Root(doc).endpoints, 0))

componentConfigYamlSchemaV1beta1(doc, srcDir, probe) ==
  IF doc.k = "null" THEN NullObject("")
  ELSE Field("apiVersion", Root(doc).apiVersion, TRUE,
         oneOf("apiVersion", Root(doc).apiVersion, COMPONENT_CONFIG_YAML_API_VERSION,
               OneOfMessage("apiVersion", COMPONENT_CONFIG_YAML_API_VERSION)))
       \o Field("kind", Root(doc).kind, TRUE,
            oneOf("kind", Root(doc).kind, COMPONENT_CONFIG_YAML_KIND,
                  OneOfMessage("kind", COMPONENT_CONFIG_YAML_KIND)))
       \o specSchema("spec", Root(doc).spec, srcDir, probe)

(***************************************************************************)
(* schema.validate(value, { abortEarly: false }): the promise it settles.  *)
(***************************************************************************)
NoError == [name |-> "", message |-> "", hasErrors |-> FALSE,
            errors |-> <<>>, inner |-> <<>>]
Pending   == [state |-> "pending", err |-> NoError]
Fulfilled == [state |-> "fulfilled", err |-> NoError]
Rejected(err) == [state |-> "rejected", err |-> err]

\* new Error(message) and a TypeError: neither has an errors property
PlainError(name, message) ==
  [name |-> name, message |-> message, hasErrors |-> FALSE,
   errors |-> <<>>, inner |-> <<>>]

\* the ValidationError aggregating the violations of one validate() call
ValidationError(items) ==
  [name |-> "ValidationError",
   message |-> IF Len(items) = 1 THEN items[1].message
               ELSE ToString(Len(items)) \o " errors occurred",
   hasErrors |-> TRUE,
   errors |-> [i \in 1..Len(items) |-> items[i].message],
   inner |-> items]

\* abortEarly: false collects every violation; a panic rejects with the
\* thrown error itself
Validate(items) ==
  IF \E i \in 1..Len(items) : items[i].panic
  THEN LET first == CHOOSE i \in 1..Len(items) :
                      items[i].panic /\ \A j \in 1..(i - 1) : ~items[j].panic
       IN Rejected(PlainError("TypeError", items[first].message))
  ELSE IF items = <<>> THEN Fulfilled
  ELSE Rejected(ValidationError(items))

(***************************************************************************)
(* index.js                                                                *)
(***************************************************************************)
\* sourceConfigFileTypes and errCodes of ./enums
COMPONENT_YAML        == "component.yaml"
COMPONENT_CONFIG_YAML == "component-config.yaml"
ENDPOINT_YAML         == "endpoints.yaml"
USER_ERROR            == "USER_ERROR"
INTERNAL_ERROR        == "INTERNAL_ERROR"

\* String(err)
ErrorToString(err) == err.name \o ": " \o err.message

RECURSIVE Bulleted(_)
\* errors.map((e) => `\n- ${e}`).join("")
Bulleted(errors) ==
  IF errors = <<>> THEN ""
  ELSE "\n- " \o Head(errors) \o Bulleted(Tail(errors))

constructValidationErrorMessage(err, ft) ==
  IF ~err.hasErrors \/ Len(err.errors) = 0
  THEN INTERNAL_ERROR \o " Failed to validate " \o ft
         \o ", something went wrong:" \o ErrorToString(err)
  ELSE USER_ERROR \o " " \o ft \o " validation failed: "
         \o (IF Len(err.errors) = 1 THEN err.errors[1] ELSE Bulleted(err.errors))

\* validateComponentYaml with a default case that falls back to the v1.1
\* schema instead of throwing
validateComponentYamlFallback(doc, srcDir, schemaVersion, probe) ==
  IF schemaVersion = Num(1, 0)
  THEN [schema |-> "componentYamlSchemaV1D0", pc |-> "awaitSchema",
        settled |-> Validate(componentYamlSchemaV1D0(doc, srcDir, probe))]
  ELSE [schema |-> "componentYamlSchemaV1D1", pc |-> "awaitSchema",
        settled |-> Validate(componentYamlSchemaV1D1(doc, srcDir, probe))]

\* What validateComponentYaml has done when it suspends or throws: the schema
\* whose validate() it called and the promise it then awaits; in the default
\* case no schema is used and its own promise is rejected.
validateComponentYaml(doc, srcDir, schemaVersion, probe) ==
  IF schemaVersion = Num(1, 0)
  THEN [schema |-> "componentYamlSchemaV1D0", pc |-> "awaitSchema",
        settled |-> Validate(componentYamlSchemaV1D0(doc, srcDir, probe))]
  ELSE IF schemaVersion = Num(1, 1)
  THEN [schema |-> "componentYamlSchemaV1D1", pc |-> "awaitSchema",
        settled |-> Validate(componentYamlSchemaV1D1(doc, srcDir, probe))]
  ELSE [schema |-> "none", pc |-> "awaitComponent",
        settled |-> Rejected(PlainError("Error",
          "SchemaVersion must be one of the following values: 1.0, 1.1"))]

\* validateSourceConfigFile up to its first await, or to its catch when it
\* throws before awaiting anything.
validateSourceConfigFile(doc, srcDir, ft, probe) ==
  IF ft = COMPONENT_YAML
  THEN IF IsAbsent(doc)
       THEN [schema |-> "none", pc |-> "awaitValidate", settled |-> Pending,
             warned |-> FALSE,
             thrown |-> PlainError("Error", constructValidationErrorMessage(
               PlainError("TypeError", "Cannot read properties of "
                 \o Text(doc) \o " (reading 'schemaVersion')"), ft))]
       ELSE LET r == validateComponentYaml(doc, srcDir, doc.v.schemaVersion, probe)
            IN [schema |-> r.schema, pc |-> r.pc, settled |-> r.settled,
                warned |-> FALSE, thrown |-> NoError]
  ELSE IF ft = COMPONENT_CONFIG_YAML
  THEN [schema |-> "componentConfigYamlSchemaV1beta1", pc |-> "awaitSchema",
        settled |-> Validate(componentConfigYamlSchemaV1beta1(doc, srcDir, probe)),
        warned |-> TRUE, thrown |-> NoError]
  ELSE IF ft = ENDPOINT_YAML
  THEN [schema |-> "endpointYamlSchemaV0D1", pc |-> "awaitSchema",
        settled |-> Validate(endpointYamlSchemaV0D1(doc, srcDir, probe)),
        warned |-> TRUE, thrown |-> NoError]
  ELSE [schema |-> "none", pc |-> "awaitValidate", settled |-> Pending,
        warned |-> FALSE,
        thrown |-> PlainError("Error", constructValidationErrorMessage(
          PlainError("Error", "'" \o ft \o "' is not a valid source config file type"),
          ft))]

\* readSrcConfigYaml followed by parseYaml: the parsed document, or the
\* message of the Error thrown. file: "missing", "unparsable" or a value.
ReadAndParse(file, ft) ==
  IF ft \notin {COMPONENT_YAML, ENDPOINT_YAML, COMPONENT_CONFIG_YAML}
  THEN [ok |-> FALSE, doc |-> Undef,
        message |-> USER_ERROR \o " Failed to read source config file: '"
                      \o ft \o "' is not a valid source config file type"]
  ELSE IF file.k = "missing"
  THEN [ok |-> FALSE, doc |-> Undef,
        message |-> USER_ERROR \o " Failed to read source config file: "
                      \o "ENOENT: no such file or directory"]
  ELSE IF file.k = "unparsable"
  THEN [ok |-> FALSE, doc |-> Undef,
        message |-> USER_ERROR \o " Failed to parse yaml: bad indentation"]
  ELSE [ok |-> TRUE, doc |-> file, message |-> ""]

(***************************************************************************)
(* The variables the custom rules assign without declaring them. Each is   *)
(* assigned and read inside one callback that never suspends, so a rule    *)
(* reads the value it has just written; what stays behind in the variable  *)
(* is the last value written, which every later call can see.              *)
(***************************************************************************)
Unset == [k |-> "unset"]

NoRuleGlobals ==
  [epName |-> Unset, envName |-> Unset, schemaFilePath |-> Unset,
   erroredEndpoint |-> Unset]

RECURSIVE LastNameAssigned(_, _, _, _)
\* the value the callback of arr.every leaves in epName or envName: the name
\* of the last element visited; reading x.name of a null element throws
\* before the assignment, and a duplicate ends the walk after it
LastNameAssigned(arr, i, seen, last) ==
  IF i > Len(arr) THEN last
  ELSE IF IsAbsent(arr[i]) THEN last
  ELSE IF arr[i].v.name \in seen THEN arr[i].v.name
  ELSE LastNameAssigned(arr, i + 1, seen \cup {arr[i].v.name}, arr[i].v.name)

\* the endpoints a schema walks, and the path it walks them under
EndpointsWalked(schema, doc) ==
  LET list == IF schema = "componentConfigYamlSchemaV1beta1"
              THEN IF Root(doc).spec.k = "obj"
                   THEN Root(doc).spec.v.inbound ELSE Undef
              ELSE Root(doc).endpoints
  IN [path |-> IF schema = "componentConfigYamlSchemaV1beta1"
               THEN "spec.inbound" ELSE "endpoints",
      list |-> IF doc.k = "obj" /\ list.k = "arr" THEN list.v ELSE <<>>]

\* the env list of a configuration section
EnvWalked(doc, section) ==
  LET conf == Root(doc)[section]
  IN IF doc.k = "obj" /\ conf.k = "obj" /\ conf.v.env.k = "arr"
     THEN conf.v.env.v ELSE <<>>

\* the four variables after the tests of one validate() call have run
RuleGlobalsAfter(g, schema, doc, srcDir) ==
  LET walked == EndpointsWalked(schema, doc)
      eps == walked.list
      component == schema \in {"componentYamlSchemaV1D0", "componentYamlSchemaV1D1",
                                "componentYamlSchemaV1D2"}
      withEnv == schema \in {"componentYamlSchemaV1D1", "componentYamlSchemaV1D2"}
      probed == {i \in 1..Len(eps) :
                   eps[i].k = "obj" /\ Truthy(eps[i].v.schemaFilePath)}
      errored == {i \in 1..Len(eps) :
                    /\ eps[i].k = "obj"
                    /\ ~IsAbsent(eps[i].v.networkVisibilities)
                    /\ projectVisibilityOnly(
                         FieldPath(ElemPath(walked.path, i - 1), "networkVisibilities"),
                         eps[i].v.networkVisibilities, eps[i].v.type) # Pass}
      last(S) == CHOOSE i \in S : \A j \in S : j <= i
  IN [epName |-> IF component THEN LastNameAssigned(eps, 1, {}, g.epName)
                 ELSE g.epName,
      envName |-> IF withEnv
                  THEN LastNameAssigned(EnvWalked(doc, "configurations"), 1, {},
                         LastNameAssigned(EnvWalked(doc, "configuration"), 1, {},
                                          g.envName))
                  ELSE g.envName,
      schemaFilePath |-> IF probed = {} THEN g.schemaFilePath
                         ELSE Str(PathJoin(srcDir,
                                           Text(eps[last(probed)].v.schemaFilePath))),
      erroredEndpoint |-> IF component /\ errored # {}
                          THEN Str(ElemPath(walked.path, last(errored) - 1))
                          ELSE g.erroredEndpoint]

\* the violations a schema finds in a value, by the schema's name
SchemaItems(schema, doc, srcDir, probe) ==
  CASE schema = "componentYamlSchemaV1D0" -> componentYamlSchemaV1D0(doc, srcDir, probe)
    [] schema = "componentYamlSchemaV1D1" -> componentYamlSchemaV1D1(doc, srcDir, probe)
    [] schema = "componentYamlSchemaV1D2" -> componentYamlSchemaV1D2(doc, srcDir, probe)
    [] schema = "endpointYamlSchemaV0D1" -> endpointYamlSchemaV0D1(doc, srcDir, probe)
    [] schema = "componentConfigYamlSchemaV1beta1" ->
         componentConfigYamlSchemaV1beta1(doc, srcDir, probe)

(***************************************************************************)
(* The documents, inputs and file systems the model is run on.             *)
(***************************************************************************)
MaxEndpoints == 2
MaxEnv == 2

SourceRoot == "/repo"
SchemaFiles == {"openapi.yaml"}
FileSystems ==
  [{PathJoin(SourceRoot, f) : f \in SchemaFiles} -> {"exists", "missing", "throws"}]

\* the sequences of at most n elements of S
SeqsUpTo(S, n) == UNION {[1..m -> S] : m \in 0..n}

EmptyEndpoint ==
  [name |-> Undef, displayName |-> Undef, service |-> Undef, port |-> Undef,
   type |-> Undef, networkVisibility |-> Undef, networkVisibilities |-> Undef,
   context |-> Undef, schemaFilePath |-> Undef]

TypeValues == {Str(ALLOWED_TYPES[i]) : i \in 1..Len(ALLOWED_TYPES)}
                \cup {Str("SOAP"), Undef}
SchemaFileValues == {Undef} \cup {Str(f) : f \in SchemaFiles}
Service(basePath, port) == Obj([basePath |-> basePath, port |-> port])
GoodService == Service(Str("/api"), Num(8080, 0))

\* endpoints in the shape of component.yaml
EndpointV2(name, service, type, visibilities, file) ==
  Obj([EmptyEndpoint EXCEPT !.name = name, !.service = service, !.type = type,
                            !.networkVisibilities = visibilities,
                            !.schemaFilePath = file])

VisibilitiesValues ==
  {Undef, Arr(<<>>), Arr(<<Str("Project")>>), Arr(<<Str("Public")>>),
   Arr(<<Str("Organization")>>), Arr(<<Str("Project"), Str("Public")>>)}

ServiceValues ==
  {GoodService, Service(Undef, Num(8080, 0)), Service(Str("/api"), Num(1000, 0))}

\* every combination, for documents with one endpoint
EndpointsV2Wide ==
  {EndpointV2(Str("api"), s, t, v, f) :
     s \in ServiceValues, t \in TypeValues, v \in VisibilitiesValues,
     f \in SchemaFileValues}

\* a few endpoints, for documents with several
EndpointsV2Few ==
  {EndpointV2(Str("api"), GoodService, Str("REST"), Undef, Undef),
   EndpointV2(Str("web"), GoodService, Str("REST"), Undef, Undef),
   EndpointV2(Str("api"), GoodService, Str("GRPC"), Arr(<<Str("Public")>>), Undef),
   EndpointV2(Str("web"), Service(Str("/api"), Num(65535, 0)), Str("SOAP"), Undef, Undef),
   EndpointV2(Undef, Undef, Str("TCP"), Arr(<<Str("Project")>>), Undef),
   Null}

EndpointListsV2Wide == {Arr(<<e>>) : e \in EndpointsV2Wide}
EndpointListsV2Few ==
  {Undef} \cup {Arr(es) : es \in SeqsUpTo(EndpointsV2Few, MaxEndpoints)}

\* endpoints in the shape of endpoints.yaml and component-config.yaml
EndpointV1(name, port, type, visibility, context, file) ==
  Obj([EmptyEndpoint EXCEPT !.name = name, !.port = port, !.type = type,
                            !.networkVisibility = visibility,
                            !.context = context, !.schemaFilePath = file])

EndpointsV1Wide ==
  {EndpointV1(Str("api"), p, t, v, c, f) :
     p \in {Num(8080, 0)}, t \in TypeValues,
     v \in {Undef, Str("Project"), Str("Public")},
     c \in {Undef, Str(""), Str("/api"), Str("api v1")},
     f \in SchemaFileValues}

EndpointsV1Few ==
  {EndpointV1(Str("api"), Num(8080, 0), Str("REST"), Undef, Str("/api"), Undef),
   EndpointV1(Str("web"), Num(8080, 0), Str("REST"), Undef, Str("/web"), Undef),
   EndpointV1(Str("api"), Num(8080, 0), Str("GRPC"), Str("Public"), Undef, Undef),
   EndpointV1(Str("web"), Num(65535, 0), Str("SOAP"), Str("Internal"), Undef, Undef),
   EndpointV1(Undef, Undef, Str("WS"), Undef, Undef, Undef),
   Null}

EndpointListsV1Wide == {Arr(<<e>>) : e \in EndpointsV1Wide}
EndpointListsV1Few ==
  {Undef} \cup {Arr(es) : es \in SeqsUpTo(EndpointsV1Few, MaxEndpoints)}

Ref(name, key) == Obj([name |-> name, key |-> key])
GoodRef == Ref(Str("db"), Str("url"))
ValueFrom(connectionRef, configGroupRef, configForm) ==
  Obj([connectionRef |-> connectionRef, configGroupRef |-> configGroupRef,
       configForm |-> configForm])
ConfigForm ==
  Obj([displayName |-> Str("Database URL"), required |-> Undef, type |-> Str("string")])
EnvVar(name, value, valueFrom) ==
  Obj([name |-> name, value |-> value, valueFrom |-> valueFrom])

ValueFromValues ==
  {Undef,
   ValueFrom(Undef, Undef, Undef),
   ValueFrom(GoodRef, Undef, Undef),
   ValueFrom(Undef, GoodRef, Undef),
   ValueFrom(Undef, Undef, ConfigForm),
   ValueFrom(GoodRef, GoodRef, Undef),
   ValueFrom(Null, Null, Null),
   ValueFrom(Ref(Str("db"), Undef), Undef, Undef)}

EnvWide ==
  {EnvVar(n, v, f) : n \in {Str("DB_URL"), Str("1BAD")},
                     v \in {Undef, Str(""), Str("1")},
                     f \in ValueFromValues}

EnvFew ==
  {EnvVar(Str("DB_URL"), Str("1"), Undef),
   EnvVar(Str("DB_URL"), Undef, ValueFrom(GoodRef, Undef, Undef)),
   EnvVar(Str("PORT"), Undef, Undef),
   Null}

EnvLists ==
  {Undef} \cup {Arr(<<e>>) : e \in EnvWide}
          \cup {Arr(es) : es \in SeqsUpTo(EnvFew, MaxEnv)}

Configuration(env) == Obj([env |-> env])

(* Identifier strings: well-formed identifiers of every dialect, and each  *)
(* of them with one of its pieces replaced.                                *)
IdentifierTemplates ==
  {<<"choreo:///", "org", "/", "proj", "/", "comp", "/", "ep", "/", "v", "1", "", "/", "PUBLIC">>,
   <<"thirdparty:", "Stripe", " ", "API", "/", "v", "2", ".1">>,
   <<"database:", "primary", "/", "orders">>,
   <<"service:", "/", "proj", "/", "comp", "/", "v", "1", "", "/", "ep", "/", "PUBLIC">>,
   <<"", "comp", "/", "v", "1", "", "/", "PROJECT">>,
   <<"", "comp", "/", "", "12">>}

IdentifierPieces ==
  {"", "/", ".", ".2", ".2.3", "v", "V", "1", "x_1-y", "a b", "\t", "PROJECT",
   "ORGANIZATION", "INVALID_VIS", "public", "service:", "database:",
   "thirdparty:", "choreo:///", "choreo://", "Service:"}

IdentifierInputs ==
  {Join(t, "") : t \in IdentifierTemplates}
    \cup UNION {{Join([t EXCEPT ![i] = x], "") :
                    i \in 1..Len(t), x \in IdentifierPieces} :
                 t \in IdentifierTemplates}

ServiceRef(name, connectionConfig, env) ==
  Obj([name |-> name, connectionConfig |-> connectionConfig, env |-> env])
ConnectionRef(name, resourceRef) ==
  Obj([name |-> name, resourceRef |-> resourceRef])
Dependencies(serviceReferences, connectionReferences) ==
  Obj([serviceReferences |-> serviceReferences,
       connectionReferences |-> connectionReferences])
GoodUuid == Str("123e4567-e89b-12d3-a456-426614174000")
GoodEnvMapping == Arr(<<Obj([from |-> Str("ServiceURL"), to |-> Str("SVC_URL")])>>)

DependencyFew ==
  {Dependencies(Arr(<<ServiceRef(Str("database:orders"), c, e)>>), Undef) :
     c \in {Undef, Str("not-a-uuid")}, e \in {Undef, Arr(<<>>), Arr(<<Null>>)}}
  \cup {Dependencies(Arr(<<ServiceRef(n, GoodUuid, GoodEnvMapping)>>),
                     Arr(<<ConnectionRef(Str("my--conn"), r)>>)) :
          n \in {Undef, Str("orders"), Str("database:orders")},
          r \in {Undef, Str("comp/v1"), Str("choreo:///o/p/c/e/v1/PUBLIC")}}
  \cup {Dependencies(Arr(<<Null>>), Undef)}

IdentifierValues == {Str(x) : x \in IdentifierInputs} \cup {Str(""), Undef}

DependencyValues ==
  {Dependencies(Arr(<<ServiceRef(n, GoodUuid, GoodEnvMapping)>>), Undef) :
     n \in IdentifierValues}
  \cup {Dependencies(Undef, Arr(<<ConnectionRef(Str("my conn"), r)>>)) :
          r \in IdentifierValues}
  \cup DependencyFew

Document(schemaVersion, endpoints, dependencies, configuration) ==
  Obj([DefaultDocument EXCEPT !.schemaVersion = schemaVersion,
                              !.endpoints = endpoints,
                              !.dependencies = dependencies,
                              !.configuration = configuration])

SchemaVersions == {Num(1, 0), Num(1, 1), Num(1, 2), Num(1, 3), Str("1.1"), Undef}

\* component.yaml documents that vary in one section
ComponentDocuments ==
  {Document(sv, es, Undef, Undef) :
     sv \in SchemaVersions, es \in EndpointListsV2Few}
  \cup {Document(sv, es, Undef, Undef) :
          sv \in {Num(1, 0), Num(1, 1), Num(1, 2)}, es \in EndpointListsV2Wide}
  \cup {Document(sv, Undef, Undef, Configuration(env)) :
          sv \in {Num(1, 0), Num(1, 1), Num(1, 2)}, env \in EnvLists}
  \cup {Document(Num(1, 1), Undef, d, Undef) : d \in DependencyValues}
  \cup {Document(Num(1, 0), Undef, d, Undef) : d \in DependencyFew}
  \cup {Obj([DefaultDocument EXCEPT !.schemaVersion = Num(1, 1),
                                    !.configurations = Configuration(env)]) :
          env \in {Arr(es) : es \in SeqsUpTo(EnvFew, MaxEnv)}}

\* component.yaml documents with defects in several sections at once
MixedDocuments ==
  {Document(sv, es, d, c) :
     sv \in {Num(1, 1), Num(1, 2)},
     es \in {Undef,
             Arr(<<EndpointV2(Str("api"), Service(Str("/api"), Num(80, 0)),
                              Str("SOAP"), Undef, Undef)>>)},
     d \in {Undef,
            Dependencies(Arr(<<ServiceRef(Undef, GoodUuid, GoodEnvMapping)>>), Undef),
            Dependencies(Undef, Arr(<<ConnectionRef(Str("my conn"), Undef)>>)),
            Dependencies(Arr(<<ServiceRef(Str("orders"), GoodUuid, GoodEnvMapping)>>),
                         Undef)},
     c \in {Undef,
            Configuration(Arr(<<EnvVar(Str("PORT"), Undef, Undef)>>)),
            Configuration(Arr(<<Null>>))}}

EndpointDocuments ==
  {Obj([DefaultDocument EXCEPT !.version = v, !.endpoints = es]) :
     v \in {Str("0.1"), Undef}, es \in EndpointListsV1Few}
  \cup {Obj([DefaultDocument EXCEPT !.version = Str("0.1"), !.endpoints = es]) :
          es \in EndpointListsV1Wide}

ComponentConfigDocuments ==
  {Obj([DefaultDocument EXCEPT
          !.apiVersion = a, !.kind = Str("ComponentConfig"),
          !.spec = Obj([inbound |-> es, outbound |-> Undef])]) :
     a \in {Str("core.choreo.dev/v1beta1"), Str("v1")}, es \in EndpointListsV1Few}
  \cup {Obj([DefaultDocument EXCEPT
               !.apiVersion = Str("core.choreo.dev/v1beta1"),
               !.kind = Str("ComponentConfig"),
               !.spec = Obj([inbound |-> es, outbound |-> Undef])]) :
          es \in EndpointListsV1Wide}
  \cup {Obj([DefaultDocument EXCEPT
               !.apiVersion = Str("core.choreo.dev/v1beta1"), !.kind = k,
               !.spec = s]) :
          k \in {Str("ComponentConfig"), Str("Component"), Undef},
          s \in {Undef, Null,
                 Obj([inbound |-> Undef,
                      outbound |-> Dependencies(Arr(<<ServiceRef(Str("orders"),
                                     GoodUuid, GoodEnvMapping)>>), Undef)])}}

\* yaml.load gives undefined for an empty file and null for "null"
OddFiles == {Undef, Null, [k |-> "missing"], [k |-> "unparsable"]}

\* the files a repository may hold under .choreo/ for a file type
FilesFor(ft) ==
  OddFiles \cup
  (CASE ft = COMPONENT_YAML -> ComponentDocuments \cup MixedDocuments
     [] ft = ENDPOINT_YAML -> EndpointDocuments
     [] ft = COMPONENT_CONFIG_YAML -> ComponentConfigDocuments
     [] OTHER -> {})

\* the document names a schema file in one of its endpoints
MentionsSchemaFile(doc) ==
  LET lists == {Root(doc).endpoints}
                 \cup (IF Root(doc).spec.k = "obj"
                       THEN {Root(doc).spec.v.inbound} ELSE {})
  IN \E l \in lists :
       /\ l.k = "arr"
       /\ \E i \in 1..Len(l.v) :
            l.v[i].k = "obj" /\ Truthy(l.v[i].v.schemaFilePath)

\* a file system where every schema file exists
AllExist == [p \in {PathJoin(SourceRoot, f) : f \in SchemaFiles} |-> "exists"]

FileTypeInputs == {COMPONENT_YAML, ENDPOINT_YAML, COMPONENT_CONFIG_YAML, "other.yaml"}

\* the calls of main that may be in flight together, and a call not made
Calls == {1, 2}
IdleCall ==
  [file |-> Undef, ft |-> "", pc |-> "idle", value |-> Undef, schema |-> "none",
   settled |-> Pending, thrown |-> NoError, logged |-> "", failed |-> FALSE]
NoCalls == [c \in Calls |-> IdleCall]

(***************************************************************************)
(* The run of main().                                                      *)
(***************************************************************************)
Init ==
  /\ inputFileType \in FileTypeInputs
  /\ repoFile \in FilesFor(inputFileType)
  /\ fsProbe \in IF MentionsSchemaFile(repoFile) THEN FileSystems ELSE {AllExist}
  /\ yupMajor \in {0, 1}
  /\ pc = "start"
  /\ srcConfigYamlFile = Undef
  /\ sourceRootDir = ""
  /\ fileType = ""
  /\ schemaUsed = "none"
  /\ settled = Pending
  /\ thrown = NoError
  /\ warned = FALSE
  /\ logged = ""
  /\ failed = FALSE
  /\ ruleGlobals = NoRuleGlobals
  /\ calls = NoCalls

env == <<repoFile, inputFileType, fsProbe, yupMajor>>

\* main up to its first suspension: readInput, readSrcConfigYaml, parseYaml
\* and the synchronous part of validateSourceConfigFile; a failure to read
\* or parse ends main in its catch.
Main ==
  /\ pc = "start"
  /\ sourceRootDir' = SourceRoot
  /\ fileType' = inputFileType
  /\ LET read == ReadAndParse(repoFile, inputFileType) IN
       IF ~read.ok
       THEN /\ logged' = read.message
            /\ failed' = TRUE
            /\ pc' = "done"
            /\ UNCHANGED <<srcConfigYamlFile, schemaUsed, settled, thrown, warned,
                           ruleGlobals>>
       ELSE LET r == validateSourceConfigFile(read.doc, SourceRoot,
                                              inputFileType, fsProbe) IN
            /\ srcConfigYamlFile' = read.doc
            /\ ruleGlobals' = IF r.schema = "none" THEN ruleGlobals
                              ELSE RuleGlobalsAfter(ruleGlobals, r.schema,
                                                    read.doc, SourceRoot)
            /\ schemaUsed' = r.schema
            /\ settled' = r.settled
            /\ thrown' = r.thrown
            /\ warned' = r.warned
            /\ pc' = r.pc
            /\ UNCHANGED <<logged, failed>>
  /\ UNCHANGED <<env, calls>>

\* validateComponentYaml after its await: it returns, or rethrows the
\* rejection, so its own promise settles the same way
ResumeValidateComponentYaml ==
  /\ pc = "awaitSchema"
  /\ fileType = COMPONENT_YAML
  /\ pc' = "awaitComponent"
  /\ UNCHANGED <<env, srcConfigYamlFile, sourceRootDir, fileType, schemaUsed,
                 settled, thrown, warned, logged, failed, ruleGlobals, calls>>

\* validateSourceConfigFile after its await: the catch wraps a rejection
ResumeValidateSourceConfigFile ==
  /\ \/ pc = "awaitComponent"
     \/ pc = "awaitSchema" /\ fileType # COMPONENT_YAML
  /\ thrown' = IF settled.state = "rejected"
               THEN PlainError("Error",
                      constructValidationErrorMessage(settled.err, fileType))
               ELSE NoError
  /\ pc' = "awaitValidate"
  /\ UNCHANGED <<env, srcConfigYamlFile, sourceRootDir, fileType, schemaUsed,
                 settled, warned, logged, failed, ruleGlobals, calls>>

\* main after its await: the catch logs the message and fails the action
ResumeMain ==
  /\ pc = "awaitValidate"
  /\ IF thrown # NoError
     THEN logged' = thrown.message /\ failed' = TRUE
     ELSE UNCHANGED <<logged, failed>>
  /\ pc' = "done"
  /\ UNCHANGED <<env, srcConfigYamlFile, sourceRootDir, fileType, schemaUsed,
                 settled, thrown, warned, ruleGlobals, calls>>

Next ==
  \/ Main
  \/ ResumeValidateComponentYaml
  \/ ResumeValidateSourceConfigFile
  \/ ResumeMain

Spec == Init /\ [][Next]_vars

(***************************************************************************)
(* Two runs of main() in one process. Each runs to its next await before   *)
(* the other may go on; the event loop picks which one resumes.            *)
(***************************************************************************)
\* the file and the file type each call is made for
InterleavedInputs ==
  {[ft |-> COMPONENT_YAML, file |->
      Document(Num(1, 1),
        Arr(<<EndpointV2(Str("api"), GoodService, Str("GRPC"), Arr(<<Str("Public")>>),
                         Str("openapi.yaml")),
              EndpointV2(Str("api"), GoodService, Str("REST"), Undef, Undef)>>),
        Undef,
        Configuration(Arr(<<EnvVar(Str("PORT"), Undef, Undef),
                            EnvVar(Str("PORT"), Str("1"), Undef)>>)))],
   [ft |-> COMPONENT_YAML, file |->
      Document(Num(1, 1),
        Arr(<<EndpointV2(Str("web"), GoodService, Str("REST"), Undef, Undef)>>),
        Undef, Configuration(Arr(<<EnvVar(Str("DB_URL"), Str("1"), Undef)>>)))],
   [ft |-> COMPONENT_YAML, file |->
      Document(Num(1, 0),
        Arr(<<EndpointV2(Str("web"), GoodService, Str("TCP"), Arr(<<>>), Undef),
              Null>>),
        Undef, Undef)],
   [ft |-> COMPONENT_YAML, file |-> Document(Num(1, 3), Undef, Undef, Undef)],
   [ft |-> COMPONENT_YAML, file |-> Undef],
   [ft |-> ENDPOINT_YAML, file |->
      Obj([DefaultDocument EXCEPT
             !.version = Str("0.1"),
             !.endpoints =
               Arr(<<EndpointV1(Str("api"), Num(8080, 0), Str("REST"), Undef, Undef,
                                Str("openapi.yaml"))>>)])],
   [ft |-> COMPONENT_CONFIG_YAML, file |->
      Obj([DefaultDocument EXCEPT
             !.apiVersion = Str("v1"), !.kind = Str("ComponentConfig"),
             !.spec = Obj([inbound |->
                             Arr(<<EndpointV1(Str("web"), Num(8080, 0), Str("WS"),
                                              Undef, Undef, Undef)>>),
                           outbound |-> Undef])])],
   [ft |-> ENDPOINT_YAML, file |-> [k |-> "missing"]]}

InitTwo ==
  /\ \E inputs \in [Calls -> InterleavedInputs] :
       calls = [c \in Calls |->
                  [IdleCall EXCEPT !.file = inputs[c].file, !.ft = inputs[c].ft,
                                   !.pc = "start"]]
  /\ fsProbe \in FileSystems
  /\ yupMajor \in {0, 1}
  /\ srcConfigYamlFile = Undef
  /\ sourceRootDir = ""
  /\ fileType = ""
  /\ ruleGlobals = NoRuleGlobals
  /\ repoFile = Undef
  /\ inputFileType = ""
  /\ pc = "idle"
  /\ schemaUsed = "none"
  /\ settled = Pending
  /\ thrown = NoError
  /\ warned = FALSE
  /\ logged = ""
  /\ failed = FALSE

single == <<repoFile, inputFileType, pc, schemaUsed, settled, thrown, warned,
            logged, failed>>

\* validate() reading the variable srcConfigYamlFile when its tests run,
\* instead of taking its argument when it is called
ValidatedValueShared(c) == srcConfigYamlFile

\* the value the tests of a call's validate() run on: the argument of
\* validate(), evaluated when validate was called
ValidatedValue(c) == calls[c].value

\* main of call c up to its first suspension. readInput assigns the
\* variables sourceRootDir and fileType and returns them to locals; the
\* parsed file is assigned to the variable srcConfigYamlFile and read back
\* from it before anything is awaited. Library version 1 runs the tests of
\* validate() inside the call; version 0 starts them in later microtasks.
CallMain(c) ==
  /\ calls[c].pc = "start"
  /\ sourceRootDir' = SourceRoot
  /\ fileType' = calls[c].ft
  /\ LET read == ReadAndParse(calls[c].file, calls[c].ft) IN
       IF ~read.ok
       THEN /\ calls' = [calls EXCEPT ![c].logged = read.message,
                                      ![c].failed = TRUE, ![c].pc = "done"]
            /\ UNCHANGED <<srcConfigYamlFile, ruleGlobals>>
       ELSE /\ srcConfigYamlFile' = read.doc
            /\ LET r == validateSourceConfigFile(srcConfigYamlFile', SourceRoot,
                                                 calls[c].ft, fsProbe)
                   later == yupMajor = 0 /\ r.schema # "none"
               IN /\ calls' = [calls EXCEPT
                       ![c].value = srcConfigYamlFile',
                       ![c].schema = r.schema,
                       ![c].settled = IF later THEN Pending ELSE r.settled,
                       ![c].thrown = r.thrown,
                       ![c].pc = IF later THEN "testing" ELSE r.pc]
                  /\ ruleGlobals' =
                       IF later \/ r.schema = "none" THEN ruleGlobals
                       ELSE RuleGlobalsAfter(ruleGlobals, r.schema,
                                             srcConfigYamlFile', SourceRoot)
  /\ UNCHANGED <<fsProbe, yupMajor, single>>

\* the tests of the validate() of call c, run after the call suspended
CallRunTests(c) ==
  /\ calls[c].pc = "testing"
  /\ calls' = [calls EXCEPT
       ![c].settled = Validate(SchemaItems(calls[c].schema, ValidatedValue(c),
                                           SourceRoot, fsProbe)),
       ![c].pc = "awaitSchema"]
  /\ ruleGlobals' = RuleGlobalsAfter(ruleGlobals, calls[c].schema,
                                     ValidatedValue(c), SourceRoot)
  /\ UNCHANGED <<fsProbe, yupMajor, single, srcConfigYamlFile, sourceRootDir,
                 fileType>>

\* validateComponentYaml of call c after its await
CallResumeValidateComponentYaml(c) ==
  /\ calls[c].pc = "awaitSchema"
  /\ calls[c].ft = COMPONENT_YAML
  /\ calls' = [calls EXCEPT ![c].pc = "awaitComponent"]
  /\ UNCHANGED <<fsProbe, yupMajor, single, srcConfigYamlFile, sourceRootDir,
                 fileType, ruleGlobals>>

\* validateSourceConfigFile of call c after its await: the catch names the
\* file type it was called with
CallResumeValidateSourceConfigFile(c) ==
  /\ \/ calls[c].pc = "awaitComponent"
     \/ calls[c].pc = "awaitSchema" /\ calls[c].ft # COMPONENT_YAML
  /\ calls' = [calls EXCEPT
       ![c].thrown = IF calls[c].settled.state = "rejected"
                     THEN PlainError("Error", constructValidationErrorMessage(
                            calls[c].settled.err, calls[c].ft))
                     ELSE NoError,
       ![c].pc = "awaitValidate"]
  /\ UNCHANGED <<fsProbe, yupMajor, single, srcConfigYamlFile, sourceRootDir,
                 fileType, ruleGlobals>>

\* main of call c after its await
CallResumeMain(c) ==
  /\ calls[c].pc = "awaitValidate"
  /\ calls' = [calls EXCEPT
       ![c].logged = IF calls[c].thrown # NoError
                     THEN calls[c].thrown.message ELSE calls[c].logged,
       ![c].failed = calls[c].thrown # NoError,
       ![c].pc = "done"]
  /\ UNCHANGED <<fsProbe, yupMajor, single, srcConfigYamlFile, sourceRootDir,
                 fileType, ruleGlobals>>

NextTwo ==
  \E c \in Calls :
    \/ CallMain(c)
    \/ CallRunTests(c)
    \/ CallResumeValidateComponentYaml(c)
    \/ CallResumeValidateSourceConfigFile(c)
    \/ CallResumeMain(c)

SpecTwo == InitTwo /\ [][NextTwo]_vars

(***************************************************************************)
(* What the properties below speak of.                                     *)
(***************************************************************************)
Done == pc = "done"

\* the violations of the aggregated ValidationError, <<>> when validation
\* succeeded or was rejected with another error
Violations ==
  IF settled.state = "rejected" /\ settled.err.hasErrors
  THEN settled.err.inner ELSE <<>>

ViolationsAt(rule, at) ==
  {i \in 1..Len(Violations) : Violations[i].rule = rule /\ Violations[i].at = at}

\* main read and parsed a document that is a mapping
ParsedDocument ==
  /\ pc # "start"
  /\ ReadAndParse(repoFile, inputFileType).ok
  /\ srcConfigYamlFile.k = "obj"

\* the (kind, version) pairs the specification lists as supported
SupportedVersions == {Num(1, 0), Num(1, 1), Num(1, 2)}
SupportedDocument ==
  /\ ParsedDocument
  /\ fileType = COMPONENT_YAML => srcConfigYamlFile.v.schemaVersion \in SupportedVersions

\* the endpoint collection of the document and its path
EndpointsPath == IF fileType = COMPONENT_CONFIG_YAML THEN "spec.inbound" ELSE "endpoints"
EndpointsValue ==
  IF fileType = COMPONENT_CONFIG_YAML
  THEN IF Root(srcConfigYamlFile).spec.k = "obj"
       THEN Root(srcConfigYamlFile).spec.v.inbound ELSE Undef
  ELSE Root(srcConfigYamlFile).endpoints
Endpoints == IF EndpointsValue.k = "arr" THEN EndpointsValue.v ELSE <<>>
EndpointPath(i) == ElemPath(EndpointsPath, i - 1)
\* the endpoints that are mappings
EndpointIndexes == {i \in 1..Len(Endpoints) : Endpoints[i].k = "obj"}

\* port and context of an endpoint: under service in component.yaml
PortOf(i) ==
  IF fileType = COMPONENT_YAML
  THEN IF Endpoints[i].v.service.k = "obj" THEN Endpoints[i].v.service.v.port ELSE Undef
  ELSE Endpoints[i].v.port
PortPath(i) ==
  IF fileType = COMPONENT_YAML THEN EndpointPath(i) \o ".service.port"
  ELSE EndpointPath(i) \o ".port"
ContextOf(i) ==
  IF fileType = COMPONENT_YAML
  THEN IF Endpoints[i].v.service.k = "obj" THEN Endpoints[i].v.service.v.basePath ELSE Undef
  ELSE Endpoints[i].v.context
ContextPath(i) ==
  IF fileType = COMPONENT_YAML THEN EndpointPath(i) \o ".service.basePath"
  ELSE EndpointPath(i) \o ".context"

HasViolationAt(at) == \E i \in 1..Len(Violations) : Violations[i].at = at

\* the validation of a schema ran to its end: it succeeded or it collected
\* violations, no rule threw
Validated ==
  /\ Done
  /\ ParsedDocument
  /\ schemaUsed # "none"
  /\ settled.state = "fulfilled" \/ settled.err.hasErrors

PortOutOfRange(i) ==
  /\ PortOf(i).k = "num"
  /\ ~(NumMoreThan(PortOf(i), 1000) /\ NumLessThan(PortOf(i), 65535))
UnknownType(i) ==
  /\ Endpoints[i].v.type.k = "str"
  /\ ~ListIncludes(ALLOWED_TYPES, Endpoints[i].v.type)

\* the env entries of a configuration section of the document
EnvSections == {"configuration", "configurations"}
EnvValue(section) ==
  LET conf == IF section = "configuration" THEN Root(srcConfigYamlFile).configuration
              ELSE Root(srcConfigYamlFile).configurations
  IN IF conf.k = "obj" THEN conf.v.env ELSE Undef
EnvEntries(section) == IF EnvValue(section).k = "arr" THEN EnvValue(section).v ELSE <<>>
EnvPath(section, i) == ElemPath(section \o ".env", i - 1)
EnvIndexes(section) ==
  {i \in 1..Len(EnvEntries(section)) : EnvEntries(section)[i].k = "obj"}

\* how many of the sources of an env entry are present
SourcesPresent(entry, withConfigForm) ==
  LET vf == ValueFromOf(entry.v)
      present == {<<"value", Truthy(entry.v.value)>>,
                  <<"connectionRef", Truthy(vf.connectionRef)>>,
                  <<"configGroupRef", Truthy(vf.configGroupRef)>>,
                  <<"configForm", withConfigForm /\ Truthy(vf.configForm)>>}
  IN Cardinality({s \in present : s[2]})

OneOfItems(items) == {i \in 1..Len(items) : items[i].rule = "oneOfRequired"}

(***************************************************************************)
(* C1. Validation is non-fail-fast: in a document of a supported kind and  *)
(* version where an endpoint's port is out of range and an endpoint's type *)
(* is unknown, the violation list holds a violation for the port and one   *)
(* for the type; neither suppresses the other.                             *)
(***************************************************************************)
C1_NonFailFast ==
  (Done /\ SupportedDocument) =>
    \A i, j \in EndpointIndexes :
      (PortOutOfRange(i) /\ UnknownType(j)) =>
        /\ HasViolationAt(PortPath(i))
        /\ HasViolationAt(EndpointPath(j) \o ".type")

(***************************************************************************)
(* C2. For every env entry of a validated component.yaml, the one-of rule  *)
(* produces no violation if and only if exactly one of value,              *)
(* connectionRef, configGroupRef (and configForm in the v1.2 schema) is    *)
(* present.                                                                *)
(***************************************************************************)
C2_ExactlyOneOf ==
  /\ (Validated /\ schemaUsed = "componentYamlSchemaV1D1") =>
       \A section \in EnvSections : \A i \in EnvIndexes(section) :
         (ViolationsAt("oneOfRequired", EnvPath(section, i)) = {})
           <=> (SourcesPresent(EnvEntries(section)[i], FALSE) = 1)
  /\ (ParsedDocument /\ fileType = COMPONENT_YAML) =>
       \A section \in EnvSections : \A i \in EnvIndexes(section) :
         (OneOfItems(envVariableSchemaV0D2(EnvPath(section, i),
                                           EnvEntries(section)[i])) = {})
           <=> (SourcesPresent(EnvEntries(section)[i], TRUE) = 1)

SharedEndpointName ==
  \E i, j \in EndpointIndexes :
    i # j /\ Endpoints[i].v.name.k = "str" /\ Endpoints[i].v.name = Endpoints[j].v.name
(***************************************************************************)
(* C3. In any validated document, of any kind, the result holds exactly    *)
(* one "must be unique" violation when two endpoints share a name, and     *)
(* none when all names are distinct or the collection is absent.           *)
(***************************************************************************)
C3_UniqueEndpointNames ==
  Validated =>
    Cardinality({i \in 1..Len(Violations) :
                   /\ Violations[i].rule = "unique-endpoint-name"
                   /\ Includes(Violations[i].message, "must be unique")})
      = IF SharedEndpointName THEN 1 ELSE 0

(***************************************************************************)
(* C4. For every endpoint of a validated document of any kind: a           *)
(* violation "<path> is required for <type>-type endpoints" for its        *)
(* context (basePath) is reported if and only if its type is REST, GraphQL *)
(* or WS and the context (basePath) is absent or empty.                    *)
(***************************************************************************)
C4_ContextRequired ==
  Validated =>
    \A i \in EndpointIndexes :
      LET type == Endpoints[i].v.type IN
      (ListIncludes(BASE_PATH_REQUIRED_TYPES, type) /\ ~Truthy(ContextOf(i)))
        <=> \E k \in 1..Len(Violations) :
              Violations[k].message =
                ContextPath(i) \o " is required for " \o Text(type) \o "-type endpoints"

VisibilityIsProjectOnly(i) ==
  IF fileType = COMPONENT_YAML
  THEN Endpoints[i].v.networkVisibilities = Arr(<<Str(PROJECT_VISIBILITY)>>)
  ELSE Endpoints[i].v.networkVisibility = Str(PROJECT_VISIBILITY)
VisibilityViolation(i) ==
  \E k \in 1..Len(Violations) :
    /\ Violations[k].rule = "project-visibility-only"
    /\ Includes(Violations[k].message, EndpointPath(i))
    /\ Includes(Violations[k].message, PROJECT_VISIBILITY)
(***************************************************************************)
(* C5. For every endpoint of a validated document: when its type is GRPC,  *)
(* TCP or UDP a violation naming the endpoint and requiring Project is     *)
(* reported unless its network visibility is exactly {Project}; when its   *)
(* type is REST, GraphQL or WS no such violation is reported.              *)
(***************************************************************************)
C5_ProjectVisibilityOnly ==
  Validated =>
    \A i \in EndpointIndexes :
      LET type == Endpoints[i].v.type IN
      /\ ListIncludes(PROJECT_ONLY_TYPES, type) =>
           (VisibilityViolation(i) <=> ~VisibilityIsProjectOnly(i))
      /\ ListIncludes(BASE_PATH_REQUIRED_TYPES, type) => ~VisibilityViolation(i)

(***************************************************************************)
(* C6. A component.yaml whose schemaVersion is 1.0, 1.1 or 1.2 is          *)
(* validated against that version's own schema and the outcome is success  *)
(* or that schema's violations; 1.2 is not treated as unsupported.         *)
(***************************************************************************)
C6_VersionDispatch ==
  (ParsedDocument /\ fileType = COMPONENT_YAML) =>
    LET v == srcConfigYamlFile.v.schemaVersion IN
    /\ v = Num(1, 0) =>
         /\ schemaUsed = "componentYamlSchemaV1D0"
         /\ settled = Validate(componentYamlSchemaV1D0(srcConfigYamlFile, sourceRootDir, fsProbe))
    /\ v = Num(1, 1) =>
         /\ schemaUsed = "componentYamlSchemaV1D1"
         /\ settled = Validate(componentYamlSchemaV1D1(srcConfigYamlFile, sourceRootDir, fsProbe))
    /\ v = Num(1, 2) =>
         /\ schemaUsed = "componentYamlSchemaV1D2"
         /\ settled = Validate(componentYamlSchemaV1D2(srcConfigYamlFile, sourceRootDir, fsProbe))

UnsupportedVersion ==
  /\ ParsedDocument
  /\ fileType = COMPONENT_YAML
  /\ srcConfigYamlFile.v.schemaVersion \notin SupportedVersions
RECURSIVE SplitFrom(_, _, _, _)
\* the pieces of s from position i on, cut at every c; cur is the piece begun
SplitFrom(s, c, i, cur) ==
  IF i > Len(s) THEN <<cur>>
  ELSE IF Ch(s, i) = c THEN <<cur>> \o SplitFrom(s, c, i + 1, "")
  ELSE SplitFrom(s, c, i + 1, cur \o Ch(s, i))
SplitOn(s, c) == SplitFrom(s, c, 1, "")
After(s, n) == IF n >= Len(s) THEN "" ELSE SubSeq(s, n + 1, Len(s))
AllIn(x, chars) == \A i \in 1..Len(x) : Ch(x, i) \in chars

TokenChars == Lower \cup Upper \cup Digit \cup {"_", "-"}
IsToken(x) == Len(x) > 0 /\ AllIn(x, TokenChars)
IsNumber(x) == Len(x) > 0 /\ AllIn(x, Digit)
VisibilityWords == {"PUBLIC", "PROJECT", "ORGANIZATION"}

\* <digits>(.<digits>)* with at most maxMinor dotted parts after the first
DottedNumbers(x, maxMinor) ==
  LET parts == SplitOn(x, ".")
  IN /\ Len(parts) <= maxMinor + 1
     /\ \A i \in 1..Len(parts) : IsNumber(parts[i])
\* a version: one of the letters vs, which may be left out when optional
IsVersion(x, vs, optional, maxMinor) ==
  \/ Len(x) > 0 /\ Ch(x, 1) \in vs /\ DottedNumbers(After(x, 1), maxMinor)
  \/ optional /\ DottedNumbers(x, maxMinor)

\* choreo:///TOKEN/TOKEN/TOKEN/TOKEN/v<digits>[.<digits>]/VISIBILITY
ChoreoForm(s) ==
  /\ StartsWith(s, "choreo:///")
  /\ LET segs == SplitOn(After(s, Len("choreo:///")), "/")
     IN /\ Len(segs) = 6
        /\ \A i \in 1..4 : IsToken(segs[i])
        /\ IsVersion(segs[5], {"v"}, FALSE, 1)
        /\ segs[6] \in VisibilityWords

\* thirdparty:<name>/[vV]<digits>(.<digits>)*, the name over nameChars
ThirdPartyForm(s, nameChars) ==
  /\ StartsWith(s, "thirdparty:")
  /\ LET segs == SplitOn(After(s, Len("thirdparty:")), "/")
     IN /\ Len(segs) = 2
        /\ Len(segs[1]) > 0
        /\ AllIn(segs[1], nameChars)
        /\ IsVersion(segs[2], {"v", "V"}, FALSE, Len(s))

\* database:[TOKEN/]TOKEN
DatabaseForm(s) ==
  /\ StartsWith(s, "database:")
  /\ LET segs == SplitOn(After(s, Len("database:")), "/")
     IN /\ Len(segs) \in {1, 2}
        /\ \A i \in 1..Len(segs) : IsToken(segs[i])

\* (service:)?(/TOKEN/)?TOKEN/<version>(/TOKEN)?(/VISIBILITY)?, the
\* version with an optional letter of vs
ServiceForm(s, vs) ==
  LET body == IF StartsWith(s, "service:") THEN After(s, Len("service:")) ELSE s
      segs == SplitOn(body, "/")
      hasProject == segs[1] = ""
      rest == IF ~hasProject THEN segs
              ELSE IF Len(segs) < 3 THEN <<>>
              ELSE SubSeq(segs, 3, Len(segs))
  IN /\ hasProject => (Len(segs) >= 3 /\ IsToken(segs[2]))
     /\ Len(rest) \in 2..4
     /\ IsToken(rest[1])
     /\ IsVersion(rest[2], vs, TRUE, Len(s))
     /\ Len(rest) >= 3 => IsToken(rest[3])
     /\ Len(rest) = 4 => rest[4] \in VisibilityWords

\* the identifiers of the document: the names of its service references
\* and the resourceRefs of its connection references, with their paths
DependenciesValue ==
  IF fileType = COMPONENT_YAML /\ Root(srcConfigYamlFile).dependencies.k = "obj"
  THEN Root(srcConfigYamlFile).dependencies.v ELSE DefaultDependencies
ServiceReferences ==
  IF DependenciesValue.serviceReferences.k = "arr"
  THEN DependenciesValue.serviceReferences.v ELSE <<>>
ConnectionReferences ==
  IF DependenciesValue.connectionReferences.k = "arr"
  THEN DependenciesValue.connectionReferences.v ELSE <<>>
ServiceNameIndexes ==
  {i \in 1..Len(ServiceReferences) :
     ServiceReferences[i].k = "obj" /\ ServiceReferences[i].v.name.k = "str"}
ResourceRefIndexes ==
  {i \in 1..Len(ConnectionReferences) :
     ConnectionReferences[i].k = "obj" /\ ConnectionReferences[i].v.resourceRef.k = "str"}
ServiceNamePath(i) == ElemPath("dependencies.serviceReferences", i - 1) \o ".name"
ResourceRefPath(i) ==
  ElemPath("dependencies.connectionReferences", i - 1) \o ".resourceRef"
ServiceNameOutcome(i) ==
  validateServiceName(ServiceNamePath(i), ServiceReferences[i].v.name)
ResourceRefOutcome(i) ==
  validateResourceRef(ResourceRefPath(i), ConnectionReferences[i].v.resourceRef)

\* a classifier's outcome is one violation of the identifier at path
OneIdentifierViolation(items, path) ==
  /\ Len(items) = 1
  /\ ~items[1].panic
  /\ StartsWith(items[1].message, path \o " has an invalid service identifier")

ListedForm(s) ==
  IF StartsWith(s, "choreo:///") THEN ChoreoForm(s)
  ELSE IF StartsWith(s, "thirdparty:")
  THEN ThirdPartyForm(s, AlnumChars \cup {" ", "_", ".", "-"})
  ELSE IF StartsWith(s, "database:") THEN DatabaseForm(s)
  ELSE ServiceForm(s, {"v"})
ThirdPartyNameChars == AlnumChars \cup Space \cup {"_", ".", "-"}
ServiceNameForm(s) ==
  IF StartsWith(s, "choreo:///") THEN ChoreoForm(s)
  ELSE IF StartsWith(s, "thirdparty:") THEN ThirdPartyForm(s, ThirdPartyNameChars)
  ELSE IF StartsWith(s, "database:") THEN DatabaseForm(s)
  ELSE FALSE
ResourceRefForm(s) ==
  IF StartsWith(s, "thirdparty:") THEN ThirdPartyForm(s, ThirdPartyNameChars)
  ELSE IF StartsWith(s, "database:") THEN DatabaseForm(s)
  ELSE ServiceForm(s, {"v", "V"})
SchemaFilePathOf(i) == Endpoints[i].v.schemaFilePath
SchemaFilePathPath(i) == EndpointPath(i) \o ".schemaFilePath"
ProbeOutcome(i) == fsProbe[PathJoin(sourceRootDir, Text(SchemaFilePathOf(i)))]
(***************************************************************************)
(* C9. In a validation that ran to its end: an endpoint whose              *)
(* schemaFilePath makes the probe raise gets a violation for that field    *)
(* whose message is the probe-failure message; an endpoint without a       *)
(* schemaFilePath gets no violation of the rule.                           *)
(***************************************************************************)
C9_ProbeFailureReported ==
  Validated =>
    \A i \in EndpointIndexes :
      /\ (Truthy(SchemaFilePathOf(i)) /\ ProbeOutcome(i) = "throws") =>
           \E k \in ViolationsAt("schema-file-exists", SchemaFilePathPath(i)) :
             Includes(Violations[k].message, "Failed to check if schema file exists")
      /\ ~Truthy(SchemaFilePathOf(i)) =>
           ViolationsAt("schema-file-exists", SchemaFilePathPath(i)) = {}

EnvNameMessage ==
  "Environment variable name must start with a letter or underscore and can only contain letters, numbers, and underscores."
IsEnvNamePath(at) ==
  \E section \in EnvSections : StartsWith(at, section \o ".env[")
MessageAsListed(v) ==
  CASE v.rule = "unique-endpoint-name" -> v.message = "Endpoint names must be unique"
    [] v.rule = "unique-env-variable-name" ->
         v.message = "Environment variable names must be unique"
    [] v.rule = "oneOfRequired" ->
         v.message \in
           {"One of value, connectionRef or configGroupRef must be provided",
            "One of value, connectionRef, configGroupRef  or configForm must be provided"}
    [] v.rule = "schema-file-exists" ->
         \/ v.message = v.at \o " is invalid"
         \/ /\ StartsWith(v.message, "Schema file does not exist at the given path ")
            /\ ~Includes(v.message, v.at)
    [] v.rule = "project-visibility-only" ->
         /\ Includes(v.message, "The " \o FirstSegment(v.at, 1) \o " is a type ")
         /\ ~Includes(v.message, v.at)
    [] v.rule = "matches" /\ IsEnvNamePath(v.at) -> v.message = EnvNameMessage
    [] v.rule = "oneOf" /\ v.at = "schemaVersion" ->
         StartsWith(v.message, "Schema version must be ")
    [] OTHER -> StartsWith(v.message, IF v.at = "" THEN "this" ELSE v.at)
Rendered(message) ==
  IF Len(Violations) = 1
  THEN thrown.message = USER_ERROR \o " " \o fileType \o " validation failed: " \o message
  ELSE /\ StartsWith(thrown.message, USER_ERROR \o " " \o fileType \o " validation failed: \n- ")
       /\ Includes(thrown.message, "\n- " \o message)
RunAlone(file, ft) ==
  LET read == ReadAndParse(file, ft) IN
    IF ~read.ok
    THEN [settled |-> Pending, logged |-> read.message, failed |-> TRUE]
    ELSE LET r == validateSourceConfigFile(read.doc, SourceRoot, ft, fsProbe)
             error == IF r.thrown # NoError THEN r.thrown
                      ELSE IF r.settled.state = "rejected"
                      THEN PlainError("Error",
                             constructValidationErrorMessage(r.settled.err, ft))
                      ELSE NoError
         IN [settled |-> r.settled, logged |-> error.message,
             failed |-> error # NoError]

Suspended(c) ==
  calls[c].pc \in {"testing", "awaitSchema", "awaitComponent", "awaitValidate"}

HasSettled(c) ==
  calls[c].pc \in {"awaitSchema", "awaitComponent", "awaitValidate", "done"}

\* C11: calls in flight together do not change each other's result. Whatever
\* the order in which two calls resume, each call's validation settles with
\* the ordered violation list the same file and file type give when run
\* alone, each call logs the message it logs alone, the value validated is
\* the call's own document, and two calls made for the same inputs end with
\* the same list and message.
C11_NoInterference ==
  /\ \A c \in Calls :
       LET alone == RunAlone(calls[c].file, calls[c].ft) IN
         /\ HasSettled(c) => calls[c].settled = alone.settled
         /\ calls[c].pc = "done" =>
              /\ calls[c].logged = alone.logged
              /\ calls[c].failed = alone.failed
         /\ Suspended(c) /\ calls[c].schema # "none" =>
              ValidatedValue(c) = calls[c].file
  /\ \A c, d \in Calls :
       /\ calls[c].file = calls[d].file
       /\ calls[c].ft = calls[d].ft
       /\ calls[c].pc = "done"
       /\ calls[d].pc = "done"
       => /\ calls[c].settled = calls[d].settled
          /\ calls[c].logged = calls[d].logged

\* C11, reached: the first call has its violations and waits to be resumed
\* while the second call, made for another document of another file type,
\* has overwritten srcConfigYamlFile and fileType and the variables of the
\* rules, and waits too.
C11_Witness ==
  /\ calls[1].pc = "awaitComponent"
  /\ calls[1].settled.state = "rejected"
  /\ calls[1].settled.err.hasErrors
  /\ Len(calls[1].settled.err.errors) > 1
  /\ calls[2].pc = "awaitSchema"
  /\ calls[2].settled.state = "rejected"
  /\ calls[2].ft # calls[1].ft
  /\ calls[2].file # calls[1].file
  /\ fileType = calls[2].ft
  /\ srcConfigYamlFile = calls[2].file
  /\ srcConfigYamlFile # calls[1].value
  /\ ruleGlobals.schemaFilePath # Unset
  /\ ruleGlobals.epName # Unset

(***************************************************************************)
(* Defects of the document and internal errors.                            *)
(***************************************************************************)
NullElementIn(list) == \E i \in 1..Len(list) : list[i].k = "null"

\* the defects the custom rules meet: a null element in endpoints or env, a
\* serviceReferences entry without a name, a connectionReferences entry
\* without a resourceRef, each under a schema that validates the section
NamedDefect ==
  \/ /\ schemaUsed # "none"
     /\ NullElementIn(Endpoints)
  \/ /\ schemaUsed \in {"componentYamlSchemaV1D0", "componentYamlSchemaV1D1"}
     /\ \E i \in 1..Len(ServiceReferences) :
          ServiceReferences[i].k = "obj" /\ IsAbsent(ServiceReferences[i].v.name)
  \/ /\ schemaUsed = "componentYamlSchemaV1D1"
     /\ \/ \E section \in EnvSections : NullElementIn(EnvEntries(section))
        \/ \E i \in 1..Len(ConnectionReferences) :
             /\ ConnectionReferences[i].k = "obj"
             /\ IsAbsent(ConnectionReferences[i].v.resourceRef)

ValidationFailedMessage ==
  StartsWith(logged, USER_ERROR \o " " \o fileType \o " validation failed: ")

\* C12: a defect of the document is reported as violations, never as an
\* internal error. When a parsed document was validated with a schema and
\* main has ended, a rejected validation carries at least one violation and
\* the message logged is the USER_ERROR "validation failed" message; and a
\* document with a null element in endpoints or env, a serviceReferences
\* entry without a name or a connectionReferences entry without a
\* resourceRef is rejected.
C12_DefectsAreViolations ==
  (Done /\ ParsedDocument /\ schemaUsed # "none") =>
    /\ settled.state = "rejected" =>
         /\ settled.err.hasErrors
         /\ Len(Violations) >= 1
         /\ ValidationFailedMessage
    /\ NamedDefect => settled.state = "rejected"

====
